---- MODULE Spec2Model ----
(***************************************************************************)
(* Model of the RewardsPlusSEO plugin:                                     *)
(*   - generateRewardsPlusMetadata (src/src/components/RewardsPlusSEO.tsx) *)
(*   - SchemaOrgScript             (src/unnamed/part_000)                  *)
(*                                                                         *)
(* JavaScript values are modelled as tagged records so that values of      *)
(* different JavaScript types can be compared:                             *)
(*   Str(s)  a string          Num(n)  a number                            *)
(*   Obj(f)  an object, f a function from its own keys to values           *)
(*   Arr(q)  an array          Undefined, Null                             *)
(* A key that is present with the value undefined is kept in Obj(f); a     *)
(* key that was never set is not in DOMAIN f.  Key order is not modelled.  *)
(*                                                                         *)
(* Spec       : calls of generateRewardsPlusMetadata on one input          *)
(* SpecScript : renders and mount effects of SchemaOrgScript instances     *)
(***************************************************************************)
EXTENDS Integers, Sequences, FiniteSets, TLC

VARIABLES
    props,      \* the argument of generateRewardsPlusMetadata
    calls,      \* number of calls of generateRewardsPlusMetadata made so far
    metadata,   \* the value returned by the last call (Undefined before it)
    console,    \* the diagnostics written by console.error / console.warn
    sprops,     \* per SchemaOrgScript instance: the props of its last render
    renders,    \* per instance: how many times it has been rendered
    isMounted,  \* per instance: the useState flag
    effectPending, \* per instance: the mount effect is scheduled, not yet run
    rendered,   \* per instance: what its last render returned
    warnings    \* per instance: the diagnostics its last render wrote

builderVars == <<props, calls, metadata, console>>
scriptVars == <<sprops, renders, isMounted, effectPending, rendered, warnings>>
vars == <<props, calls, metadata, console,
          sprops, renders, isMounted, effectPending, rendered, warnings>>

-----------------------------------------------------------------------------
(* JavaScript values *)

Str(s) == [str |-> s]
Num(n) == [num |-> n]
Obj(f) == [obj |-> f]
Arr(q) == [arr |-> q]
Undefined == [undef |-> TRUE]
Null == [null |-> TRUE]

IsObj(v) == "obj" \in DOMAIN v
IsArr(v) == "arr" \in DOMAIN v
IsStr(v) == "str" \in DOMAIN v
IsJsonText(v) == "json" \in DOMAIN v

\* typeof v === 'string'
IsString(v) == IsStr(v) \/ IsJsonText(v)

NoKeys == [k \in {} |-> Undefined]

\* o.k : reading a property of an object (undefined when the key is not set)
Get(o, k) == IF k \in DOMAIN o.obj THEN o.obj[k] ELSE Undefined

\* o[k] = v : assignment creates or overwrites the key
Set(o, k, v) == Obj((k :> v) @@ o.obj)

\* Object.keys(o)
Keys(o) == DOMAIN o.obj

\* JavaScript truthiness, as used by `if (x)`, `!x`, `x && y`, `x ? y : z`
Truthy(v) == /\ v # Undefined
             /\ v # Null
             /\ v # Str("")
             /\ v # Num(0)

\* { ...a, ...b } : b's keys win; spreading a falsy value adds nothing
Spread(a, b) ==
    LET fa == IF IsObj(a) THEN a.obj ELSE NoKeys
        fb == IF IsObj(b) THEN b.obj ELSE NoKeys
    IN  Obj(fb @@ fa)

\* JSON.stringify(v, null, 2): the JSON text is modelled by the JSON value it
\* denotes.  Keys whose value is undefined are not written; undefined inside
\* an array is written as null.
RECURSIVE JsonOf(_)
JsonOf(v) ==
    IF IsObj(v)
    THEN Obj([k \in {j \in DOMAIN v.obj : v.obj[j] # Undefined} |-> JsonOf(v.obj[k])])
    ELSE IF IsArr(v)
    THEN Arr([i \in DOMAIN v.arr |->
                IF v.arr[i] = Undefined THEN Null ELSE JsonOf(v.arr[i])])
    ELSE v

\* the object turned into text by string coercion instead of JSON.stringify
JSONstringify_ToString(v) == Str("[object Object]")

JSONstringify(v) == [json |-> JsonOf(v)]

\* JSON.parse(text)
JSONparse(t) == t.json

-----------------------------------------------------------------------------
(* generateRewardsPlusMetadata *)

schemaUrl(path) == "https://schema.org/" \o path

ErrArticle == "RewardsPlusSEO: Article pageType requires 'article' prop."
ErrProduct == "RewardsPlusSEO: Product pageType requires 'product' prop."
ErrOther == "RewardsPlusSEO: 'other' page type selected without additionalSchema"
WarnUnknown(pt) == "RewardsPlusSEO: Unknown pageType \"" \o pt \o "\""

\* the destructuring without the default value
twitterCardType_NoDefault(p) == Get(p, "twitterCardType")

\* const { ..., twitterCardType = 'summary', ... } = props
twitterCardType(p) ==
    IF Get(p, "twitterCardType") = Undefined
    THEN Str("summary")
    ELSE Get(p, "twitterCardType")

\* let schema = { '@context': schemaUrl('') }
BaseSchema == Obj("@context" :> Str(schemaUrl("")))

\* case 'home' without the assignment of @type
HomeSchema_NoType(p) ==
    LET s2 == Set(BaseSchema, "url", Get(p, "url"))
        s3 == Set(s2, "name", Get(p, "title"))
    IN  Set(s3, "description", Get(p, "description"))

\* case 'home'
HomeSchema(p) ==
    LET s1 == Set(BaseSchema, "@type", Str("WebSite"))
        s2 == Set(s1, "url", Get(p, "url"))
        s3 == Set(s2, "name", Get(p, "title"))
    IN  Set(s3, "description", Get(p, "description"))

\* case 'category' with the @type of case 'home' left in place
CategorySchema_HomeType(p) ==
    LET s1 == Set(BaseSchema, "@type", Str("WebSite"))
        s2 == Set(s1, "url", Get(p, "url"))
        s3 == Set(s2, "name", Get(p, "title"))
    IN  Set(s3, "description", Get(p, "description"))

\* case 'category'
CategorySchema(p) ==
    LET s1 == Set(BaseSchema, "@type", Str("CollectionPage"))
        s2 == Set(s1, "url", Get(p, "url"))
        s3 == Set(s2, "name", Get(p, "title"))
    IN  Set(s3, "description", Get(p, "description"))

\* case 'article' with the publisher built when a name or a logo is given
ArticleSchema_PublisherFromLogo(p) ==
    LET article == Get(p, "article")
        s1 == Set(BaseSchema, "@type", Str("Article"))
        s2 == Set(s1, "headline", Get(p, "title"))
        s3 == Set(s2, "description", Get(p, "description"))
        s4 == Set(s3, "image", Get(p, "imageUrl"))
        s5 == Set(s4, "datePublished", Get(article, "publishedTime"))
        s6 == IF Truthy(Get(article, "modifiedTime"))
              THEN Set(s5, "dateModified", Get(article, "modifiedTime"))
              ELSE s5
        s7 == IF Truthy(Get(article, "author"))
              THEN Set(s6, "author",
                       Obj(("@type" :> Str("Person")) @@
                           ("name" :> Get(article, "author"))))
              ELSE s6
        logo == IF Truthy(Get(article, "publisherLogoUrl"))
                THEN Obj("logo" :>
                           Obj(("@type" :> Str("ImageObject")) @@
                               ("url" :> Get(article, "publisherLogoUrl"))))
                ELSE Get(article, "publisherLogoUrl")
        s8 == IF Truthy(Get(article, "publisherName"))
                 \/ Truthy(Get(article, "publisherLogoUrl"))
              THEN Set(s7, "publisher",
                       Spread(Obj(("@type" :> Str("Organization")) @@
                                  ("name" :> Get(article, "publisherName"))),
                              logo))
              ELSE s7
    IN  Set(s8, "mainEntityOfPage",
            Obj(("@type" :> Str("WebPage")) @@ ("@id" :> Get(p, "url"))))

\* case 'article', after the check that article is present
ArticleSchema(p) ==
    LET article == Get(p, "article")
        s1 == Set(BaseSchema, "@type", Str("Article"))
        s2 == Set(s1, "headline", Get(p, "title"))
        s3 == Set(s2, "description", Get(p, "description"))
        s4 == Set(s3, "image", Get(p, "imageUrl"))
        s5 == Set(s4, "datePublished", Get(article, "publishedTime"))
        s6 == IF Truthy(Get(article, "modifiedTime"))
              THEN Set(s5, "dateModified", Get(article, "modifiedTime"))
              ELSE s5
        s7 == IF Truthy(Get(article, "author"))
              THEN Set(s6, "author",
                       Obj(("@type" :> Str("Person")) @@
                           ("name" :> Get(article, "author"))))
              ELSE s6
        logo == IF Truthy(Get(article, "publisherLogoUrl"))
                THEN Obj("logo" :>
                           Obj(("@type" :> Str("ImageObject")) @@
                               ("url" :> Get(article, "publisherLogoUrl"))))
                ELSE Get(article, "publisherLogoUrl")
        s8 == IF Truthy(Get(article, "publisherName"))
              THEN Set(s7, "publisher",
                       Spread(Obj(("@type" :> Str("Organization")) @@
                                  ("name" :> Get(article, "publisherName"))),
                              logo))
              ELSE s7
    IN  Set(s8, "mainEntityOfPage",
            Obj(("@type" :> Str("WebPage")) @@ ("@id" :> Get(p, "url"))))

\* the offer object with the availability value copied as it is
Offer_RawAvailability(p) ==
    LET product == Get(p, "product")
        offer == Obj(("@type" :> Str("Offer")) @@
                     ("priceCurrency" :> Get(product, "currency")) @@
                     ("price" :> Get(product, "price")) @@
                     ("url" :> Get(p, "url")))
    IN  IF Truthy(Get(product, "availability"))
        THEN Set(offer, "availability", Get(product, "availability"))
        ELSE offer

\* the offer object of case 'product'
Offer(p) ==
    LET product == Get(p, "product")
        offer == Obj(("@type" :> Str("Offer")) @@
                     ("priceCurrency" :> Get(product, "currency")) @@
                     ("price" :> Get(product, "price")) @@
                     ("url" :> Get(p, "url")))
    IN  IF Truthy(Get(product, "availability"))
        THEN Set(offer, "availability",
                 Str(schemaUrl(Get(product, "availability").str)))
        ELSE offer

\* case 'product', after the check that product is present
ProductSchema(p) ==
    LET product == Get(p, "product")
        review == Get(product, "review")
        s1 == Set(BaseSchema, "@type", Str("Product"))
        s2 == Set(s1, "name", Get(p, "title"))
        s3 == IF Truthy(Get(p, "imageUrl"))
              THEN Set(s2, "image", Get(p, "imageUrl"))
              ELSE s2
        s4 == Set(s3, "description", Get(p, "description"))
        s5 == Set(s4, "url", Get(p, "url"))
        s6 == IF Truthy(Get(product, "brand"))
              THEN Set(s5, "brand",
                       Obj(("@type" :> Str("Brand")) @@
                           ("name" :> Get(product, "brand"))))
              ELSE s5
        s7 == IF Truthy(Get(product, "sku"))
              THEN Set(s6, "sku", Get(product, "sku"))
              ELSE s6
        s8 == IF Truthy(Get(product, "gtin"))
              THEN Set(s7, "gtin", Get(product, "gtin"))
              ELSE s7
        s9 == Set(s8, "offers", Offer(p))
    IN  IF Truthy(review)
        THEN Set(s9, "review",
                 Obj(("@type" :> Str("Review")) @@
                     ("reviewRating" :>
                        Obj(("@type" :> Str("Rating")) @@
                            ("ratingValue" :> Get(review, "ratingValue")))) @@
                     ("author" :>
                        Obj(("@type" :> Str("Person")) @@
                            ("name" :> Get(review, "author")))) @@
                     ("datePublished" :> Get(review, "datePublished")) @@
                     ("reviewBody" :> Get(review, "reviewBody"))))
        ELSE s9

\* the object the switch leaves in `schema` when it reaches its `break`
BranchSchema(p) ==
    LET pageType == Get(p, "pageType")
    IN  CASE pageType = Str("home") -> HomeSchema(p)
          [] pageType = Str("article") -> ArticleSchema(p)
          [] pageType = Str("category") -> CategorySchema(p)
          [] pageType = Str("product") -> ProductSchema(p)
          [] pageType = Str("other") -> Get(p, "additionalSchema")

\* the tail of generateSchema keeping every object that has a key
MergeAndCount_AnyKey(schema, additionalSchema) ==
    LET merged == IF Truthy(additionalSchema)
                  THEN Spread(schema, additionalSchema)
                  ELSE schema
    IN  IF Cardinality(Keys(merged)) > 0 THEN merged ELSE Null

\* the merge with the operands of the spread exchanged
MergeAndCount_SchemaWins(schema, additionalSchema) ==
    LET merged == IF Truthy(additionalSchema)
                  THEN Spread(additionalSchema, schema)
                  ELSE schema
    IN  IF Cardinality(Keys(merged)) > 1 THEN merged ELSE Null

\* the tail of generateSchema: merge of additionalSchema and the key count
MergeAndCount(schema, additionalSchema) ==
    LET merged == IF Truthy(additionalSchema)
                  THEN Spread(schema, additionalSchema)
                  ELSE schema
    IN  IF Cardinality(Keys(merged)) > 1 THEN merged ELSE Null

\* generateSchema with a default branch that returns null without a warning
generateSchema_SilentDefault(p) ==
    LET pageType == Get(p, "pageType")
        additionalSchema == Get(p, "additionalSchema")
    IN  IF pageType = Str("article") /\ ~Truthy(Get(p, "article"))
        THEN [schema |-> Null, log |-> <<ErrArticle>>]
        ELSE IF pageType = Str("product") /\ ~Truthy(Get(p, "product"))
        THEN [schema |-> Null, log |-> <<ErrProduct>>]
        ELSE IF pageType = Str("other") /\ ~Truthy(additionalSchema)
        THEN [schema |-> Null, log |-> <<ErrOther>>]
        ELSE IF pageType \notin {Str("home"), Str("article"), Str("category"),
                                 Str("product"), Str("other")}
        THEN [schema |-> Null, log |-> <<>>]
        ELSE [schema |-> MergeAndCount(BranchSchema(p), additionalSchema),
              log |-> <<>>]

\* generateSchema with `break` in place of `return null` after a diagnostic
generateSchema_NoEarlyReturn(p) ==
    LET pageType == Get(p, "pageType")
        additionalSchema == Get(p, "additionalSchema")
    IN  IF pageType = Str("article") /\ ~Truthy(Get(p, "article"))
        THEN [schema |-> MergeAndCount(BaseSchema, additionalSchema),
              log |-> <<ErrArticle>>]
        ELSE IF pageType = Str("product") /\ ~Truthy(Get(p, "product"))
        THEN [schema |-> MergeAndCount(BaseSchema, additionalSchema),
              log |-> <<ErrProduct>>]
        ELSE IF pageType = Str("other") /\ ~Truthy(additionalSchema)
        THEN [schema |-> MergeAndCount(BaseSchema, additionalSchema),
              log |-> <<ErrOther>>]
        ELSE IF pageType \notin {Str("home"), Str("article"), Str("category"),
                                 Str("product"), Str("other")}
        THEN [schema |-> MergeAndCount(BaseSchema, additionalSchema),
              log |-> <<WarnUnknown(pageType.str)>>]
        ELSE [schema |-> MergeAndCount(BaseSchema, additionalSchema),
              log |-> <<>>]

\* generateSchema: the value returned and the diagnostics written on the way
generateSchema(p) ==
    LET pageType == Get(p, "pageType")
        additionalSchema == Get(p, "additionalSchema")
    IN  IF pageType = Str("article") /\ ~Truthy(Get(p, "article"))
        THEN [schema |-> Null, log |-> <<ErrArticle>>]
        ELSE IF pageType = Str("product") /\ ~Truthy(Get(p, "product"))
        THEN [schema |-> Null, log |-> <<ErrProduct>>]
        ELSE IF pageType = Str("other") /\ ~Truthy(additionalSchema)
        THEN [schema |-> Null, log |-> <<ErrOther>>]
        ELSE IF pageType \notin {Str("home"), Str("article"), Str("category"),
                                 Str("product"), Str("other")}
        THEN [schema |-> Null, log |-> <<WarnUnknown(pageType.str)>>]
        ELSE [schema |-> MergeAndCount(BranchSchema(p), additionalSchema),
              log |-> <<>>]

\* images as the bare URL, not wrapped in an array
Images_NotWrapped(p) ==
    IF Truthy(Get(p, "imageUrl")) THEN Get(p, "imageUrl") ELSE Undefined

\* images: imageUrl ? [imageUrl] : undefined
Images(p) ==
    IF Truthy(Get(p, "imageUrl")) THEN Arr(<<Get(p, "imageUrl")>>) ELSE Undefined

\* the openGraph object literal with type 'article' tied to the article prop
OpenGraph_TypeNeedsArticle(p) ==
    LET article == Get(p, "article")
        base == Obj(("type" :> (IF Get(p, "pageType") = Str("article")
                                   /\ Truthy(article)
                                THEN Str("article") ELSE Str("website"))) @@
                    ("title" :> Get(p, "title")) @@
                    ("description" :> Get(p, "description")) @@
                    ("url" :> Get(p, "url")) @@
                    ("images" :> Images(p)) @@
                    ("siteName" :> Get(p, "siteName")))
        extra == IF Truthy(article)
                 THEN Obj(("publishedTime" :> Get(article, "publishedTime")) @@
                          ("modifiedTime" :> Get(article, "modifiedTime")) @@
                          ("tags" :> Get(article, "tags")) @@
                          ("authors" :> (IF Truthy(Get(article, "author"))
                                         THEN Arr(<<Get(article, "author")>>)
                                         ELSE Undefined)))
                 ELSE article
    IN  Spread(base, extra)

\* the openGraph object literal with the article fields only on article pages
OpenGraph_ArticleFieldsGated(p) ==
    LET article == Get(p, "article")
        base == Obj(("type" :> (IF Get(p, "pageType") = Str("article")
                                THEN Str("article") ELSE Str("website"))) @@
                    ("title" :> Get(p, "title")) @@
                    ("description" :> Get(p, "description")) @@
                    ("url" :> Get(p, "url")) @@
                    ("images" :> Images(p)) @@
                    ("siteName" :> Get(p, "siteName")))
        extra == IF Truthy(article) /\ Get(p, "pageType") = Str("article")
                 THEN Obj(("publishedTime" :> Get(article, "publishedTime")) @@
                          ("modifiedTime" :> Get(article, "modifiedTime")) @@
                          ("tags" :> Get(article, "tags")) @@
                          ("authors" :> (IF Truthy(Get(article, "author"))
                                         THEN Arr(<<Get(article, "author")>>)
                                         ELSE Undefined)))
                 ELSE Undefined
    IN  Spread(base, extra)

\* the openGraph object literal with the two types exchanged
OpenGraph_TypeSwapped(p) ==
    LET article == Get(p, "article")
        base == Obj(("type" :> (IF Get(p, "pageType") = Str("article")
                                THEN Str("website") ELSE Str("article"))) @@
                    ("title" :> Get(p, "title")) @@
                    ("description" :> Get(p, "description")) @@
                    ("url" :> Get(p, "url")) @@
                    ("images" :> Images(p)) @@
                    ("siteName" :> Get(p, "siteName")))
        extra == IF Truthy(article)
                 THEN Obj(("publishedTime" :> Get(article, "publishedTime")) @@
                          ("modifiedTime" :> Get(article, "modifiedTime")) @@
                          ("tags" :> Get(article, "tags")) @@
                          ("authors" :> (IF Truthy(Get(article, "author"))
                                         THEN Arr(<<Get(article, "author")>>)
                                         ELSE Undefined)))
                 ELSE article
    IN  Spread(base, extra)

\* the openGraph object literal
OpenGraph(p) ==
    LET article == Get(p, "article")
        base == Obj(("type" :> (IF Get(p, "pageType") = Str("article")
                                THEN Str("article") ELSE Str("website"))) @@
                    ("title" :> Get(p, "title")) @@
                    ("description" :> Get(p, "description")) @@
                    ("url" :> Get(p, "url")) @@
                    ("images" :> Images(p)) @@
                    ("siteName" :> Get(p, "siteName")))
        extra == IF Truthy(article)
                 THEN Obj(("publishedTime" :> Get(article, "publishedTime")) @@
                          ("modifiedTime" :> Get(article, "modifiedTime")) @@
                          ("tags" :> Get(article, "tags")) @@
                          ("authors" :> (IF Truthy(Get(article, "author"))
                                         THEN Arr(<<Get(article, "author")>>)
                                         ELSE Undefined)))
                 ELSE article
    IN  Spread(base, extra)

\* the twitter object literal
Twitter(p) ==
    Obj(("card" :> twitterCardType(p)) @@
        ("title" :> Get(p, "title")) @@
        ("description" :> Get(p, "description")) @@
        ("images" :> Images(p)) @@
        ("creator" :> Get(p, "twitterCreator")))

\* generateRewardsPlusMetadata with a per-call stamp in the output
generateRewardsPlusMetadata_Stamped(p) ==
    Obj(("title" :> Get(p, "title")) @@
        ("description" :> Get(p, "description")) @@
        ("alternates" :> Obj("canonical" :> Get(p, "url"))) @@
        ("openGraph" :> OpenGraph(p)) @@
        ("twitter" :> Twitter(p)) @@
        ("other" :> Obj("generated" :> Num(calls))))

\* the value returned by generateRewardsPlusMetadata(p)
generateRewardsPlusMetadata(p) ==
    LET schema == generateSchema(p).schema
        md == Obj(("title" :> Get(p, "title")) @@
                  ("description" :> Get(p, "description")) @@
                  ("alternates" :> Obj("canonical" :> Get(p, "url"))) @@
                  ("openGraph" :> OpenGraph(p)) @@
                  ("twitter" :> Twitter(p)))
    IN  IF Truthy(schema)
        THEN Set(md, "other",
                 Obj("application-ld+json" :> JSONstringify(schema)))
        ELSE md

\* the object the variable `schema` refers to when the switch is left: the
\* literal of line 67, or the caller's additionalSchema after line 161
SchemaRef(p) ==
    IF Get(p, "pageType") = Str("other") /\ Truthy(Get(p, "additionalSchema"))
    THEN "additionalSchema"
    ELSE "local"

\* props after a call in which @context is assigned through `schema` after
\* the switch instead of in the literal
PropsAfterCall_ContextSetLate(p) ==
    IF SchemaRef(p) = "additionalSchema"
    THEN Set(p, "additionalSchema",
             Set(Get(p, "additionalSchema"), "@context", Str(schemaUrl(""))))
    ELSE p

\* props after the call.  article, product and props itself are only read.
\* Every assignment schema[...] = ... is made before line 161, while `schema`
\* refers to the local literal; after line 161 the only statement on `schema`
\* is line 170, which builds a new object from the spread and writes nothing
\* into the object `schema` referred to.
PropsAfterCall(p) ==
    IF SchemaRef(p) = "additionalSchema"
    THEN Set(p, "additionalSchema",
             Spread(Get(p, "additionalSchema"), Obj(NoKeys)))
    ELSE p

-----------------------------------------------------------------------------
(* SchemaOrgScript *)

WarnNeither == "SchemaOrgScript: Neither 'schema' nor 'jsonLdString' prop provided."
WarnBoth == "SchemaOrgScript: Both 'schema' and 'jsonLdString' provided.  Using 'schema'."
ErrInvalid == "SchemaOrgScript: Invalid schema data provided."

\* strategy = 'beforeInteractive'
strategyOf(sp) ==
    IF Get(sp, "strategy") = Undefined
    THEN Str("beforeInteractive")
    ELSE Get(sp, "strategy")

\* id = 'schemaorg-jsonld'
idOf(sp) ==
    IF Get(sp, "id") = Undefined THEN Str("schemaorg-jsonld") ELSE Get(sp, "id")

\* the <Script> element
ScriptElement(sp, jsonToUse) ==
    Obj(("type" :> Str("application/ld+json")) @@
        ("id" :> idOf(sp)) @@
        ("strategy" :> strategyOf(sp)) @@
        ("__html" :> jsonToUse))

\* one render that takes jsonLdString first
SchemaOrgScript_PrefersString(sp, mounted) ==
    LET schema == Get(sp, "schema")
        jsonLdString == Get(sp, "jsonLdString")
        both == IF Truthy(schema) /\ Truthy(jsonLdString)
                THEN <<WarnBoth>> ELSE <<>>
        jsonToUse == IF Truthy(jsonLdString) THEN jsonLdString
                     ELSE JSONstringify(schema)
    IN  IF ~mounted
        THEN [element |-> Null, log |-> <<>>]
        ELSE IF ~Truthy(schema) /\ ~Truthy(jsonLdString)
        THEN [element |-> Null, log |-> <<WarnNeither>>]
        ELSE IF ~IsString(jsonToUse)
        THEN [element |-> Null, log |-> both \o <<ErrInvalid>>]
        ELSE [element |-> ScriptElement(sp, jsonToUse), log |-> both]

\* one render without the check that one of the two props is there
SchemaOrgScript_NoNeitherCheck(sp, mounted) ==
    LET schema == Get(sp, "schema")
        jsonLdString == Get(sp, "jsonLdString")
        both == IF Truthy(schema) /\ Truthy(jsonLdString)
                THEN <<WarnBoth>> ELSE <<>>
        jsonToUse == IF Truthy(schema) THEN JSONstringify(schema)
                     ELSE jsonLdString
    IN  IF ~mounted
        THEN [element |-> Null, log |-> <<>>]
        ELSE IF ~IsString(jsonToUse)
        THEN [element |-> Null, log |-> both \o <<ErrInvalid>>]
        ELSE [element |-> ScriptElement(sp, jsonToUse), log |-> both]

\* one render without the isMounted check
SchemaOrgScript_NoMountCheck(sp, mounted) ==
    LET schema == Get(sp, "schema")
        jsonLdString == Get(sp, "jsonLdString")
        both == IF Truthy(schema) /\ Truthy(jsonLdString)
                THEN <<WarnBoth>> ELSE <<>>
        jsonToUse == IF Truthy(schema) THEN JSONstringify(schema)
                     ELSE jsonLdString
    IN  IF ~Truthy(schema) /\ ~Truthy(jsonLdString)
        THEN [element |-> Null, log |-> <<WarnNeither>>]
        ELSE IF ~IsString(jsonToUse)
        THEN [element |-> Null, log |-> both \o <<ErrInvalid>>]
        ELSE [element |-> ScriptElement(sp, jsonToUse), log |-> both]

\* one render of the component with props sp while the flag is `mounted`:
\* the element returned and the diagnostics written
SchemaOrgScript(sp, mounted) ==
    LET schema == Get(sp, "schema")
        jsonLdString == Get(sp, "jsonLdString")
        both == IF Truthy(schema) /\ Truthy(jsonLdString)
                THEN <<WarnBoth>> ELSE <<>>
        jsonToUse == IF Truthy(schema) THEN JSONstringify(schema)
                     ELSE jsonLdString
    IN  IF ~mounted
        THEN [element |-> Null, log |-> <<>>]
        ELSE IF ~Truthy(schema) /\ ~Truthy(jsonLdString)
        THEN [element |-> Null, log |-> <<WarnNeither>>]
        ELSE IF ~IsString(jsonToUse)
        THEN [element |-> Null, log |-> both \o <<ErrInvalid>>]
        ELSE [element |-> ScriptElement(sp, jsonToUse), log |-> both]

-----------------------------------------------------------------------------
(* The inputs the calls are made with *)

MaxCalls == 2        \* calls of generateRewardsPlusMetadata in one behaviour
MaxExtraKeys == 2    \* largest number of keys of an additionalSchema
NumInstances == 2    \* SchemaOrgScript instances on the page
MaxRenders == 3      \* renders of one SchemaOrgScript instance

PageTypes == {"home", "article", "category", "product", "other", "landing"}
RecognisedPageTypes == {"home", "article", "category", "product", "other"}

\* the ways of leaving out or supplying one optional property
Opt(k, V) == {NoKeys} \cup {k :> v : v \in V}

RequiredProps(pt) ==
    ("pageType" :> Str(pt)) @@ ("title" :> Str("T")) @@
    ("description" :> Str("D")) @@ ("url" :> Str("https://x.test"))

ImageChoices == Opt("imageUrl", {Str("https://x.test/i.png")})

SocialChoices ==
    {a @@ b @@ c :
        a \in Opt("siteName", {Str("Site")}),
        b \in Opt("twitterCardType", {Str("summary_large_image")}),
        c \in Opt("twitterCreator", {Str("@handle")})}

ArticleObjects ==
    {Obj(("publishedTime" :> Str("2024-01-01")) @@ a @@ b @@ c @@ d @@ e) :
        a \in Opt("modifiedTime", {Str("2024-02-02")}),
        b \in Opt("author", {Str("Ann")}),
        c \in Opt("tags", {Arr(<<Str("seo"), Str("news")>>)}),
        d \in Opt("publisherName", {Str("Pub")}),
        e \in Opt("publisherLogoUrl", {Str("https://x.test/logo.png")})}

BareArticle == Obj("publishedTime" :> Str("2024-01-01"))

FullArticle ==
    Obj(("publishedTime" :> Str("2024-01-01")) @@
        ("modifiedTime" :> Str("2024-02-02")) @@
        ("author" :> Str("Ann")) @@
        ("tags" :> Arr(<<Str("seo"), Str("news")>>)))

ReviewObject ==
    Obj(("author" :> Str("Bob")) @@ ("datePublished" :> Str("2024-03-03")) @@
        ("reviewBody" :> Str("Good")) @@ ("ratingValue" :> Num(5)))

ProductObjects ==
    {Obj(("price" :> Num(10)) @@ ("currency" :> Str("USD")) @@
         a @@ b @@ c @@ d @@ e) :
        a \in Opt("availability", {Str("in_stock"), Str("preorder")}),
        b \in Opt("brand", {Str("Acme")}),
        c \in Opt("sku", {Str("SKU1")}),
        d \in Opt("gtin", {Str("0001")}),
        e \in Opt("review", {ReviewObject})}

PlainProduct ==
    Obj(("price" :> Str("9.99")) @@ ("currency" :> Str("USD")) @@
        ("availability" :> Str("in_stock")))

\* the keys an additionalSchema is built from, and the value each one carries
ExtraKeys == {"@context", "@type", "name", "offers", "mainEntity", "publisher"}

ExtraValue(k) ==
    CASE k = "@context" -> Str("https://schema.org")
      [] k = "@type" -> Str("FAQPage")
      [] k = "name" -> Str("Override")
      [] k = "offers" -> Obj("@type" :> Str("AggregateOffer"))
      [] k = "mainEntity" -> Arr(<<Obj("@type" :> Str("Question"))>>)
      [] k = "publisher" -> Obj("@type" :> Str("NewsMediaOrganization"))

AdditionalSchemas ==
    {Obj([k \in S |-> ExtraValue(k)]) :
        S \in {T \in SUBSET ExtraKeys : Cardinality(T) <= MaxExtraKeys}}

ExtraChoices == Opt("additionalSchema", AdditionalSchemas)

\* every page type, with and without each companion object
GeneralInputs ==
    {Obj(RequiredProps(pt) @@ i @@ s @@ a @@ pr @@ x) :
        pt \in PageTypes, i \in ImageChoices, s \in SocialChoices,
        a \in Opt("article", {BareArticle, FullArticle}),
        pr \in Opt("product", {PlainProduct}),
        x \in ExtraChoices}

\* article pages with every combination of the optional article fields
ArticleInputs ==
    {Obj(RequiredProps("article") @@ i @@ ("article" :> a) @@ x) :
        i \in ImageChoices, a \in ArticleObjects, x \in ExtraChoices}

\* product pages with every combination of the optional product fields
ProductInputs ==
    {Obj(RequiredProps("product") @@ i @@ ("product" :> pr) @@ x) :
        i \in ImageChoices, pr \in ProductObjects, x \in ExtraChoices}

Inputs == GeneralInputs \cup ArticleInputs \cup ProductInputs

\* the props a SchemaOrgScript instance is rendered with
Instances == 1..NumInstances

SiteSchema ==
    Obj(("@context" :> Str("https://schema.org")) @@
        ("@type" :> Str("WebSite")) @@
        ("url" :> Str("https://x.test")) @@
        ("name" :> Str("X")))

CustomPlacement ==
    ("strategy" :> Str("afterInteractive")) @@ ("id" :> Str("faq"))

PlainJson == Str("{\"@type\":\"B\"}")

ScriptProps ==
    {Obj(NoKeys),
     Obj("schema" :> Null),
     Obj("jsonLdString" :> Str("")),
     Obj("schema" :> SiteSchema),
     Obj("jsonLdString" :> PlainJson),
     Obj(("schema" :> SiteSchema) @@ ("jsonLdString" :> PlainJson)),
     Obj(("schema" :> SiteSchema) @@ CustomPlacement),
     Obj(("jsonLdString" :> PlainJson) @@ CustomPlacement)}

-----------------------------------------------------------------------------
(* The calls of generateRewardsPlusMetadata *)

NoCallYet ==
    /\ calls = 0
    /\ metadata = Undefined
    /\ console = <<>>

NothingRendered ==
    /\ sprops = [i \in Instances |-> Undefined]
    /\ renders = [i \in Instances |-> 0]
    /\ isMounted = [i \in Instances |-> FALSE]
    /\ effectPending = [i \in Instances |-> FALSE]
    /\ rendered = [i \in Instances |-> Undefined]
    /\ warnings = [i \in Instances |-> <<>>]

Init ==
    /\ props \in Inputs
    /\ NoCallYet
    /\ NothingRendered

\* one call generateRewardsPlusMetadata(props)
Call ==
    /\ calls < MaxCalls
    /\ calls' = calls + 1
    /\ metadata' = generateRewardsPlusMetadata(props)
    /\ console' = console \o generateSchema(props).log
    /\ props' = PropsAfterCall(props)
    /\ UNCHANGED scriptVars

Next == Call

Spec == Init /\ [][Next]_vars

-----------------------------------------------------------------------------
(* The renders of SchemaOrgScript *)

InitScript ==
    /\ props = Obj(RequiredProps("home"))
    /\ NoCallYet
    /\ NothingRendered

\* a render of a component that keeps the flag in a plain local variable:
\* every render starts from false again
Render_LocalFlag(i, sp) ==
    /\ renders[i] < MaxRenders
    /\ renders' = [renders EXCEPT ![i] = @ + 1]
    /\ sprops' = [sprops EXCEPT ![i] = sp]
    /\ rendered' = [rendered EXCEPT ![i] = SchemaOrgScript(sp, FALSE).element]
    /\ warnings' = [warnings EXCEPT ![i] = SchemaOrgScript(sp, FALSE).log]
    /\ effectPending' = [effectPending EXCEPT ![i] = IF renders[i] = 0 THEN TRUE ELSE @]
    /\ isMounted' = [isMounted EXCEPT ![i] = FALSE]
    /\ UNCHANGED builderVars

\* React renders instance i with props sp: the function body runs with the
\* current value of the flag; the first render schedules the mount effect
Render(i, sp) ==
    /\ renders[i] < MaxRenders
    /\ renders' = [renders EXCEPT ![i] = @ + 1]
    /\ sprops' = [sprops EXCEPT ![i] = sp]
    /\ rendered' = [rendered EXCEPT ![i] = SchemaOrgScript(sp, isMounted[i]).element]
    /\ warnings' = [warnings EXCEPT ![i] = SchemaOrgScript(sp, isMounted[i]).log]
    /\ effectPending' = [effectPending EXCEPT ![i] = IF renders[i] = 0 THEN TRUE ELSE @]
    /\ UNCHANGED isMounted
    /\ UNCHANGED builderVars

\* the effect of a component whose flag is one module-level variable that
\* every instance reads
MountEffect_SharedFlag(i) ==
    /\ effectPending[i]
    /\ effectPending' = [effectPending EXCEPT ![i] = FALSE]
    /\ isMounted' = [j \in Instances |-> TRUE]
    /\ UNCHANGED <<sprops, renders, rendered, warnings>>
    /\ UNCHANGED builderVars

\* an effect that runs without calling setIsMounted
MountEffect_NoSet(i) ==
    /\ effectPending[i]
    /\ effectPending' = [effectPending EXCEPT ![i] = FALSE]
    /\ UNCHANGED <<sprops, renders, rendered, warnings, isMounted>>
    /\ UNCHANGED builderVars

\* the effect of useEffect(..., []) runs once, after the first render
MountEffect(i) ==
    /\ effectPending[i]
    /\ effectPending' = [effectPending EXCEPT ![i] = FALSE]
    /\ isMounted' = [isMounted EXCEPT ![i] = TRUE]
    /\ UNCHANGED <<sprops, renders, rendered, warnings>>
    /\ UNCHANGED builderVars

NextScript ==
    \/ \E i \in Instances, sp \in ScriptProps : Render(i, sp)
    \/ \E i \in Instances : MountEffect(i)

SpecScript == InitScript /\ [][NextScript]_vars

RECURSIVE RendersUpTo(_)
RendersUpTo(n) == IF n = 0 THEN 0 ELSE renders[n] + RendersUpTo(n - 1)

\* the renders made so far, all instances together
TotalRenders == RendersUpTo(NumInstances)

\* a render while the page as a whole has renders left: the behaviours with
\* eventualities are explored with one budget of MaxRenders renders, shared
\* by the instances
RenderOnPage(i, sp) == TotalRenders < MaxRenders /\ Render(i, sp)

NextScriptFair ==
    \/ \E i \in Instances, sp \in ScriptProps : RenderOnPage(i, sp)
    \/ \E i \in Instances : MountEffect(i)

\* React runs a scheduled effect after the commit of the render that
\* scheduled it: a pending mount effect is not postponed for ever
SpecScriptFair ==
    /\ InitScript
    /\ [][NextScriptFair]_vars
    /\ \A i \in Instances : WF_vars(MountEffect(i))

-----------------------------------------------------------------------------
(* What a caller observes after a call *)

Returned == calls > 0

pageTypeOf(p) == Get(p, "pageType").str

\* the output carries the custom JSON-LD key
HasJsonLd == Returned /\ "other" \in Keys(metadata)

\* the structured data the attached text denotes
Payload == JSONparse(Get(Get(metadata, "other"), "application-ld+json"))

\* the companion object the page type requires is present
CompanionPresent ==
    CASE pageTypeOf(props) = "article" -> Truthy(Get(props, "article"))
      [] pageTypeOf(props) = "product" -> Truthy(Get(props, "product"))
      [] pageTypeOf(props) = "other" -> Truthy(Get(props, "additionalSchema"))
      [] OTHER -> TRUE

\* title, description, canonical alternate, Open Graph and Twitter fields of
\* the output are the ones of the input
BasicsFromInput ==
    /\ Get(metadata, "title") = Get(props, "title")
    /\ Get(metadata, "description") = Get(props, "description")
    /\ Get(Get(metadata, "alternates"), "canonical") = Get(props, "url")
    /\ Get(Get(metadata, "openGraph"), "title") = Get(props, "title")
    /\ Get(Get(metadata, "openGraph"), "description") = Get(props, "description")
    /\ Get(Get(metadata, "openGraph"), "url") = Get(props, "url")
    /\ Get(Get(metadata, "openGraph"), "type") \in {Str("article"), Str("website")}
    /\ Get(Get(metadata, "twitter"), "title") = Get(props, "title")
    /\ Get(Get(metadata, "twitter"), "description") = Get(props, "description")
    /\ IsStr(Get(Get(metadata, "twitter"), "card"))

-----------------------------------------------------------------------------
(* C1 *)

\* the @type column of the dispatch table
TableType(p) ==
    CASE pageTypeOf(p) = "home" -> Str("WebSite")
      [] pageTypeOf(p) = "article" -> Str("Article")
      [] pageTypeOf(p) = "category" -> Str("CollectionPage")
      [] pageTypeOf(p) = "product" -> Str("Product")
      [] pageTypeOf(p) = "other" -> Get(Get(p, "additionalSchema"), "@type")

\* C1 as stated: whenever a payload is attached for one of the five page
\* types, its @type is the one of the dispatch table (for other, the @type of
\* additionalSchema).
C1_AsStated ==
    (HasJsonLd /\ pageTypeOf(props) \in RecognisedPageTypes)
        => Get(Payload, "@type") = TableType(props)

\* C1, amended: the @type of an attached payload is the @type of
\* additionalSchema whenever additionalSchema carries one, whatever the page
\* type; otherwise it is the one of the dispatch table, and for other a
\* payload without @type.
C1_TypeFollowsTableUnlessOverridden ==
    (HasJsonLd /\ pageTypeOf(props) \in RecognisedPageTypes)
        => Get(Payload, "@type") =
             IF /\ Truthy(Get(props, "additionalSchema"))
                /\ "@type" \in Keys(Get(props, "additionalSchema"))
             THEN Get(Get(props, "additionalSchema"), "@type")
             ELSE TableType(props)

C1_Witness ==
    /\ HasJsonLd
    /\ pageTypeOf(props) = "category"
    /\ Truthy(Get(props, "additionalSchema"))
    /\ Keys(Get(props, "additionalSchema")) = {"name"}
    /\ Get(Payload, "@type") = Str("CollectionPage")

-----------------------------------------------------------------------------
(* C2 *)

\* C2: a home page without additionalSchema yields exactly the five-key
\* object with @context "https://schema.org", @type WebSite, url, name = title
\* and description.
C2_HomePayloadExact ==
    (Returned /\ pageTypeOf(props) = "home"
              /\ ~Truthy(Get(props, "additionalSchema")))
        => /\ HasJsonLd
           /\ Payload = Obj(("@context" :> Str("https://schema.org")) @@
                            ("@type" :> Str("WebSite")) @@
                            ("url" :> Get(props, "url")) @@
                            ("name" :> Get(props, "title")) @@
                            ("description" :> Get(props, "description")))

-----------------------------------------------------------------------------
(* C3 *)

\* C3: when the companion object the page type requires is missing, the call
\* still returns title, description, canonical alternate, Open Graph and
\* Twitter fields taken from the input, and the output has no 'other' key.
C3_MissingCompanionKeepsBasics ==
    (Returned /\ pageTypeOf(props) \in {"article", "product", "other"}
              /\ ~CompanionPresent)
        => /\ BasicsFromInput
           /\ "other" \notin Keys(metadata)

C3_Witness ==
    /\ Returned
    /\ pageTypeOf(props) = "article"
    /\ ~Truthy(Get(props, "article"))
    /\ Truthy(Get(props, "additionalSchema"))
    /\ Keys(metadata) = {"title", "description", "alternates", "openGraph", "twitter"}

-----------------------------------------------------------------------------
(* C4 *)

\* C4: with additionalSchema supplied on a home, article, category or product
\* page whose companion object is present, the attached data has the
\* additionalSchema value for every key of additionalSchema and the
\* branch-generated value for every other branch-generated key.
C4_MergeOverridesAndKeeps ==
    (Returned /\ pageTypeOf(props) \in {"home", "article", "category", "product"}
              /\ CompanionPresent
              /\ Truthy(Get(props, "additionalSchema")))
        => /\ HasJsonLd
           /\ \A k \in Keys(Get(props, "additionalSchema")) :
                /\ k \in Keys(Payload)
                /\ Get(Payload, k) = JsonOf(Get(Get(props, "additionalSchema"), k))
           /\ \A k \in Keys(JsonOf(BranchSchema(props)))
                         \ Keys(Get(props, "additionalSchema")) :
                /\ k \in Keys(Payload)
                /\ Get(Payload, k) = Get(JsonOf(BranchSchema(props)), k)

C4_Witness ==
    /\ HasJsonLd
    /\ pageTypeOf(props) = "product"
    /\ Truthy(Get(props, "additionalSchema"))
    /\ Keys(Get(props, "additionalSchema")) = {"name", "mainEntity"}
    /\ Get(Payload, "name") = Str("Override")
    /\ Get(Payload, "@type") = Str("Product")

-----------------------------------------------------------------------------
(* C5 *)

\* C5: on an other page with additionalSchema supplied, the attached data is
\* additionalSchema itself, also when it has zero or one key.
C5_OtherVerbatim ==
    (Returned /\ pageTypeOf(props) = "other"
              /\ Truthy(Get(props, "additionalSchema")))
        => /\ HasJsonLd
           /\ Payload = JsonOf(Get(props, "additionalSchema"))

-----------------------------------------------------------------------------
(* C6 *)

\* C6 as stated: every attached payload has an @context key and an @type key,
\* for every page type and every additionalSchema.
C6_AsStated ==
    HasJsonLd => {"@context", "@type"} \subseteq Keys(Payload)

\* C6, amended: every payload attached for a home, article, category or
\* product page has an @context key and an @type key; a payload attached for
\* an other page has exactly the keys of additionalSchema, so it has them only
\* if additionalSchema does.
C6_ContextAndTypeUnlessOther ==
    HasJsonLd =>
        IF pageTypeOf(props) = "other"
        THEN Keys(Payload) = Keys(Get(props, "additionalSchema"))
        ELSE {"@context", "@type"} \subseteq Keys(Payload)

C6_Witness ==
    /\ HasJsonLd
    /\ pageTypeOf(props) = "other"
    /\ Keys(Payload) = {"name", "offers"}

-----------------------------------------------------------------------------
(* C7 *)

\* the offers object C7 describes
ExpectedOffers(p) ==
    LET product == Get(p, "product")
        four == Obj(("@type" :> Str("Offer")) @@
                    ("priceCurrency" :> Get(product, "currency")) @@
                    ("price" :> Get(product, "price")) @@
                    ("url" :> Get(p, "url")))
    IN  IF "availability" \in Keys(product)
        THEN Set(four, "availability",
                 Str("https://schema.org/" \o Get(product, "availability").str))
        ELSE four

\* C7 as stated: on a product page with product present the offers object of
\* the structured data is the four-key Offer plus, only when availability is
\* given, availability = "https://schema.org/" followed by the value.
C7_AsStated ==
    (Returned /\ pageTypeOf(props) = "product" /\ CompanionPresent)
        => /\ HasJsonLd
           /\ Get(Payload, "offers") = ExpectedOffers(props)

\* C7, amended: the same, for inputs whose additionalSchema is absent or has
\* no offers key (an offers key of additionalSchema replaces the object).
C7_OffersExactUnlessOverridden ==
    (Returned /\ pageTypeOf(props) = "product" /\ CompanionPresent
              /\ (Truthy(Get(props, "additionalSchema"))
                    => "offers" \notin Keys(Get(props, "additionalSchema"))))
        => /\ HasJsonLd
           /\ Get(Payload, "offers") = ExpectedOffers(props)

C7_Witness ==
    /\ HasJsonLd
    /\ pageTypeOf(props) = "product"
    /\ Get(Get(props, "product"), "availability") = Str("in_stock")
    /\ Get(Get(Payload, "offers"), "availability") = Str("https://schema.org/in_stock")

-----------------------------------------------------------------------------
(* C8 *)

-----------------------------------------------------------------------------
(* C9 *)

\* C9: for a page type outside the five recognised ones every call writes a
\* diagnostic, the output has no 'other' key, and title, description,
\* canonical alternate, Open Graph and Twitter fields come from the input,
\* with Open Graph type "website".
C9_UnknownPageType ==
    (Returned /\ pageTypeOf(props) \notin RecognisedPageTypes)
        => /\ Len(console) = calls
           /\ \A i \in 1..Len(console) :
                console[i] = WarnUnknown(pageTypeOf(props))
           /\ "other" \notin Keys(metadata)
           /\ BasicsFromInput
           /\ Get(Get(metadata, "openGraph"), "type") = Str("website")

C9_Witness ==
    /\ Returned
    /\ pageTypeOf(props) = "landing"
    /\ Truthy(Get(props, "additionalSchema"))
    /\ console # <<>>

-----------------------------------------------------------------------------
(* C10 *)

\* C10: as long as the mount effect of an instance has not run, every render
\* of that instance has returned nothing: no script element is there while
\* isMounted is false, whatever schema and jsonLdString are.
C10_NothingBeforeMount ==
    \A i \in Instances :
        ~isMounted[i] =>
            rendered[i] = IF renders[i] = 0 THEN Undefined ELSE Null

C10_Witness ==
    \E i \in Instances :
        /\ ~isMounted[i]
        /\ renders[i] >= 2
        /\ Truthy(Get(sprops[i], "schema"))
        /\ Truthy(Get(sprops[i], "jsonLdString"))
        /\ rendered[i] = Null

-----------------------------------------------------------------------------
(* What a render of an instance shows *)

\* the step is a render of instance i made while its flag is set
MountedRender(i) == renders'[i] = renders[i] + 1 /\ isMounted[i]

-----------------------------------------------------------------------------
(* C11 *)

\* C11: a render of a mounted instance with both schema and jsonLdString
\* returns a script element whose content is the serialization of schema, not
\* jsonLdString, and writes the diagnostic about the conflict.
C11_BothGivenSchemaWins ==
    [][\A i \in Instances :
          (/\ MountedRender(i)
           /\ Truthy(Get(sprops'[i], "schema"))
           /\ Truthy(Get(sprops'[i], "jsonLdString")))
            => /\ IsObj(rendered'[i])
               /\ Get(rendered'[i], "__html") = JSONstringify(Get(sprops'[i], "schema"))
               /\ Get(rendered'[i], "__html") # Get(sprops'[i], "jsonLdString")
               /\ warnings'[i] = <<WarnBoth>>]_vars

C11_Witness ==
    \E i \in Instances :
        /\ isMounted[i]
        /\ IsObj(rendered[i])
        /\ Get(sprops[i], "schema") = SiteSchema
        /\ Get(sprops[i], "jsonLdString") = PlainJson
        /\ Get(rendered[i], "__html") = JSONstringify(SiteSchema)
        /\ warnings[i] = <<WarnBoth>>

-----------------------------------------------------------------------------
(* C12 *)

\* C12: a render of a mounted instance with neither schema nor jsonLdString
\* writes a diagnostic and returns nothing.
C12_NeitherGivenRendersNothing ==
    [][\A i \in Instances :
          (/\ MountedRender(i)
           /\ ~Truthy(Get(sprops'[i], "schema"))
           /\ ~Truthy(Get(sprops'[i], "jsonLdString")))
            => /\ rendered'[i] = Null
               /\ warnings'[i] = <<WarnNeither>>]_vars

C12_Witness ==
    \E i \in Instances :
        /\ isMounted[i]
        /\ renders[i] >= 2
        /\ sprops[i] = Obj(NoKeys)
        /\ rendered[i] = Null
        /\ warnings[i] = <<WarnNeither>>

-----------------------------------------------------------------------------
(* C13 *)

-----------------------------------------------------------------------------
(* C14 *)

\* C14: the flag of every instance starts false and, once true, stays true in
\* every later step, re-renders with other props included.
C14_MountFlagOneShot ==
    /\ \A i \in Instances : isMounted[i] = FALSE
    /\ [][\A i \in Instances : isMounted[i] => isMounted'[i]]_vars

C14_Witness ==
    \E i \in Instances :
        /\ isMounted[i]
        /\ renders[i] >= 3
        /\ IsObj(rendered[i])
        /\ sprops[i] = Obj(("jsonLdString" :> PlainJson) @@ CustomPlacement)

-----------------------------------------------------------------------------
(* C15 *)

\* C15: the Open Graph type of the output is "article" when pageType is
\* article, with or without the article prop, and "website" for every other
\* pageType.
C15_OpenGraphType ==
    Returned =>
        Get(Get(metadata, "openGraph"), "type") =
            IF pageTypeOf(props) = "article" THEN Str("article") ELSE Str("website")

C15_Witness ==
    /\ Returned
    /\ pageTypeOf(props) = "article"
    /\ ~Truthy(Get(props, "article"))
    /\ Get(Get(metadata, "openGraph"), "type") = Str("article")

-----------------------------------------------------------------------------
(* C16 *)

\* C16: the Twitter card of the output is the twitterCardType supplied, and
\* "summary" when none is supplied, for every pageType.
C16_TwitterCard ==
    Returned =>
        Get(Get(metadata, "twitter"), "card") =
            IF "twitterCardType" \in Keys(props)
            THEN Get(props, "twitterCardType")
            ELSE Str("summary")

C16_Witness ==
    /\ Returned
    /\ pageTypeOf(props) = "product"
    /\ "twitterCardType" \notin Keys(props)
    /\ Get(Get(metadata, "twitter"), "card") = Str("summary")

-----------------------------------------------------------------------------
(* C17 *)

\* the structured-data object after dispatch and merge
MergedSchema(p) == Spread(BranchSchema(p), Get(p, "additionalSchema"))

\* C17: the object left by dispatch and merge is dropped exactly when @context
\* is its only key; with any other content it is attached.
C17_DroppedOnlyWhenLoneContext ==
    (Returned /\ pageTypeOf(props) \in RecognisedPageTypes /\ CompanionPresent)
        => (~HasJsonLd <=> Keys(MergedSchema(props)) = {"@context"})

-----------------------------------------------------------------------------
(* C18 *)

\* C18: with the article prop present the Open Graph object has
\* publishedTime, modifiedTime and tags of the article and authors =
\* [article.author] (no authors value without an author), on every pageType;
\* without the article prop it has none of the four keys.
C18_OpenGraphArticleFields ==
    Returned =>
        LET og == Get(metadata, "openGraph")
            article == Get(props, "article")
        IN  IF Truthy(article)
            THEN /\ Get(og, "publishedTime") = Get(article, "publishedTime")
                 /\ Get(og, "modifiedTime") = Get(article, "modifiedTime")
                 /\ Get(og, "tags") = Get(article, "tags")
                 /\ Get(og, "authors") =
                      IF "author" \in Keys(article)
                      THEN Arr(<<Get(article, "author")>>)
                      ELSE Undefined
            ELSE Keys(og) \cap {"publishedTime", "modifiedTime", "tags", "authors"} = {}

C18_Witness ==
    /\ Returned
    /\ pageTypeOf(props) = "home"
    /\ Get(props, "article") = FullArticle
    /\ Get(Get(metadata, "openGraph"), "authors") = Arr(<<Str("Ann")>>)
    /\ Get(Get(metadata, "openGraph"), "publishedTime") = Str("2024-01-01")

-----------------------------------------------------------------------------
(* C19 *)

\* C19: Open Graph images is [imageUrl] when imageUrl is supplied and has no
\* value otherwise, and the Twitter title, description and images equal the
\* Open Graph ones.
C19_ImagesAndTwitterMirror ==
    Returned =>
        LET og == Get(metadata, "openGraph")
            tw == Get(metadata, "twitter")
        IN  /\ Get(og, "images") =
                 IF "imageUrl" \in Keys(props)
                 THEN Arr(<<Get(props, "imageUrl")>>)
                 ELSE Undefined
            /\ Get(tw, "title") = Get(og, "title")
            /\ Get(tw, "description") = Get(og, "description")
            /\ Get(tw, "images") = Get(og, "images")

C19_Witness ==
    /\ Returned
    /\ "imageUrl" \in Keys(props)
    /\ Get(Get(metadata, "openGraph"), "images") = Arr(<<Get(props, "imageUrl")>>)
    /\ Get(Get(metadata, "twitter"), "images") = Arr(<<Get(props, "imageUrl")>>)

-----------------------------------------------------------------------------
(* C20 *)

-----------------------------------------------------------------------------
(* C21 *)

-----------------------------------------------------------------------------
(* C22 *)

\* the four cases in which C22 expects a diagnostic
DiagnosticCase ==
    \/ pageTypeOf(props) = "article" /\ ~Truthy(Get(props, "article"))
    \/ pageTypeOf(props) = "product" /\ ~Truthy(Get(props, "product"))
    \/ pageTypeOf(props) = "other" /\ ~Truthy(Get(props, "additionalSchema"))
    \/ pageTypeOf(props) \notin RecognisedPageTypes

\* C22: a call writes a diagnostic exactly for article without article,
\* product without product, other without additionalSchema and an
\* unrecognised pageType; a call writes at most one diagnostic, and a call
\* that writes one attaches no JSON-LD key.
C22_DiagnosticsExactlyWhen ==
    Returned =>
        /\ Len(console) = IF DiagnosticCase THEN calls ELSE 0
        /\ console # <<>> => ~HasJsonLd

C22_Witness ==
    /\ calls >= 2
    /\ pageTypeOf(props) = "product"
    /\ ~Truthy(Get(props, "product"))
    /\ Truthy(Get(props, "additionalSchema"))
    /\ console = <<ErrProduct, ErrProduct>>
    /\ ~HasJsonLd

-----------------------------------------------------------------------------
(* C25 *)

\* the optional parts of the article structured data, as C25 states them
ArticlePartsFollowArticle ==
    LET article == Get(props, "article")
    IN  /\ HasJsonLd
        /\ "publisher" \in Keys(Payload) <=> "publisherName" \in Keys(article)
        /\ "publisher" \in Keys(Payload) =>
             /\ Get(Get(Payload, "publisher"), "@type") = Str("Organization")
             /\ Get(Get(Payload, "publisher"), "name") = Get(article, "publisherName")
             /\ "logo" \in Keys(Get(Payload, "publisher"))
                  <=> "publisherLogoUrl" \in Keys(article)
             /\ "logo" \in Keys(Get(Payload, "publisher")) =>
                  Get(Get(Payload, "publisher"), "logo") =
                     Obj(("@type" :> Str("ImageObject")) @@
                         ("url" :> Get(article, "publisherLogoUrl")))
        /\ "author" \in Keys(Payload) <=> "author" \in Keys(article)
        /\ "author" \in Keys(Payload) =>
             Get(Payload, "author") =
                 Obj(("@type" :> Str("Person")) @@
                     ("name" :> Get(article, "author")))
        /\ "dateModified" \in Keys(Payload) <=> "modifiedTime" \in Keys(article)
        /\ "dateModified" \in Keys(Payload) =>
             Get(Payload, "dateModified") = Get(article, "modifiedTime")

\* C25 as stated: on an article page with article present the structured data
\* has a publisher exactly when publisherName is given, the publisher has a
\* logo ImageObject exactly when publisherLogoUrl is given too, author is a
\* Person object exactly when author is given, and dateModified is set exactly
\* when modifiedTime is given.
C25_AsStated ==
    (Returned /\ pageTypeOf(props) = "article" /\ Truthy(Get(props, "article")))
        => ArticlePartsFollowArticle

\* C25, amended: the same, for inputs whose additionalSchema is absent or has
\* none of the keys publisher, author and dateModified (such a key of
\* additionalSchema replaces the generated part).
C25_ArticlePartsUnlessOverridden ==
    (Returned /\ pageTypeOf(props) = "article" /\ Truthy(Get(props, "article"))
              /\ (Truthy(Get(props, "additionalSchema"))
                    => Keys(Get(props, "additionalSchema"))
                         \cap {"publisher", "author", "dateModified"} = {}))
        => ArticlePartsFollowArticle

C25_Witness ==
    /\ HasJsonLd
    /\ pageTypeOf(props) = "article"
    /\ Truthy(Get(props, "article"))
    /\ "publisherLogoUrl" \in Keys(Get(props, "article"))
    /\ "publisherName" \notin Keys(Get(props, "article"))
    /\ "publisher" \notin Keys(Payload)

-----------------------------------------------------------------------------
(* C23 *)

\* the props carry a schema object or a non-empty jsonLdString
ValidScriptProps(sp) ==
    Truthy(Get(sp, "schema")) \/ Truthy(Get(sp, "jsonLdString"))

\* C23: when the mount effect is not postponed for ever, an instance that was
\* rendered becomes mounted and stays mounted; every render of a mounted
\* instance with a schema or a non-empty jsonLdString returns a script element
\* with the given or default id and strategy; and an instance shows a script
\* element only once it is mounted, so its outputs are nothing, then elements.
C23_EventuallyMountedThenScripts ==
    /\ \A i \in Instances : (renders[i] > 0) ~> [](isMounted[i])
    /\ [][\A i \in Instances :
             (MountedRender(i) /\ ValidScriptProps(sprops'[i]))
               => /\ IsObj(rendered'[i])
                  /\ Get(rendered'[i], "type") = Str("application/ld+json")
                  /\ Get(rendered'[i], "id") = idOf(sprops'[i])
                  /\ Get(rendered'[i], "strategy") = strategyOf(sprops'[i])]_vars
    /\ [](\A i \in Instances : IsObj(rendered[i]) => isMounted[i])

C23_Witness ==
    \E i \in Instances :
        /\ isMounted[i]
        /\ ~effectPending[i]
        /\ renders[i] = MaxRenders
        /\ sprops[i] = Obj("schema" :> SiteSchema)
        /\ IsObj(rendered[i])
        /\ Get(rendered[i], "id") = Str("schemaorg-jsonld")
        /\ Get(rendered[i], "strategy") = Str("beforeInteractive")

-----------------------------------------------------------------------------
(* C24 *)

\* C24: a step that changes the mount flag of one instance leaves the flag and
\* the rendered output of every other instance as they were.
C24_MountFlagPerInstance ==
    [][\A i \in Instances :
          isMounted'[i] # isMounted[i]
            => \A j \in Instances \ {i} :
                  /\ isMounted'[j] = isMounted[j]
                  /\ rendered'[j] = rendered[j]]_vars

C24_Witness ==
    \E i, j \in Instances :
        /\ i # j
        /\ isMounted[i]
        /\ IsObj(rendered[i])
        /\ renders[j] > 0
        /\ effectPending[j]
        /\ ~isMounted[j]
        /\ rendered[j] = Null

====
